---- MODULE Spec2Model ----
(***************************************************************************)
(* Model of package/src/linux/installer.ts: makeInstallerDeb, the pipeline *)
(* that stages a distribution under <out>/working and calls dpkg-deb.      *)
(* Texts are TLA+ strings; a directory tree is a function from relative    *)
(* paths to entries; the position in the async function is pc.             *)
(***************************************************************************)
EXTENDS Integers, Sequences, FiniteSets, TLC

\* ------------------------------------------------------------------ bounds
\* The most entries drawn into a source directory or into a stale working
\* directory; the directories on the way to an entry come with it.
MaxDistEntries == 2
MaxStale == 1
MaxScripts == 1
MaxSourceEntries == 1

\* ------------------------------------------------------------------ texts
\* The character of s at position i, as a one-character string.
CharAt(s, i) ==
    SubSeq(s, i, i)

Whitespace ==
    {" ", "\t", "\n", "\r"}

RECURSIVE TrimStart(_)
TrimStart(s) ==
    IF Len(s) > 0 /\ CharAt(s, 1) \in Whitespace
    THEN TrimStart(SubSeq(s, 2, Len(s)))
    ELSE s

RECURSIVE TrimEnd(_)
TrimEnd(s) ==
    IF Len(s) > 0 /\ CharAt(s, Len(s)) \in Whitespace
    THEN TrimEnd(SubSeq(s, 1, Len(s) - 1))
    ELSE s

\* A trim that forgets the trailing whitespace (the line end of the output).
TrimLeadingOnly(s) ==
    TrimStart(s)

\* String.prototype.trim
Trim(s) ==
    TrimEnd(TrimStart(s))

UpperCase ==
    "ABCDEFGHIJKLMNOPQRSTUVWXYZ"

LowerCase ==
    "abcdefghijklmnopqrstuvwxyz"

LowerChar(c) ==
    IF \E i \in 1..Len(UpperCase) : CharAt(UpperCase, i) = c
    THEN CharAt(LowerCase, CHOOSE i \in 1..Len(UpperCase) : CharAt(UpperCase, i) = c)
    ELSE c

RECURSIVE ToLowerCase(_)
\* String.prototype.toLowerCase
ToLowerCase(s) ==
    IF Len(s) = 0 THEN ""
    ELSE LowerChar(CharAt(s, 1)) \o ToLowerCase(SubSeq(s, 2, Len(s)))

Digits ==
    "0123456789"

RECURSIVE NumberToString(_)
\* The template literal `${n}` of a non-negative integer: its decimal digits.
NumberToString(n) ==
    IF n < 10 THEN CharAt(Digits, n + 1)
    ELSE NumberToString(n \div 10) \o CharAt(Digits, (n % 10) + 1)

\* Math.round(bytes / 1024): the nearest integer, a tie going up.
MathRoundKiB(bytes) ==
    (bytes + 512) \div 1024

\* path.join of two clean path pieces.
Join(a, b) ==
    a \o "/" \o b

RECURSIVE JoinLines(_)
\* Array.prototype.join("\n")
JoinLines(lines) ==
    IF Len(lines) = 0 THEN ""
    ELSE IF Len(lines) = 1 THEN lines[1]
    ELSE lines[1] \o "\n" \o JoinLines(Tail(lines))

\* ------------------------------------------------------------- file trees
\* A tree maps relative paths to entries; "" is the root directory itself.
\* A tree with an empty domain is a directory that does not exist.
File(data, size) ==
    [kind |-> "file", data |-> data, size |-> size]

Dir ==
    [kind |-> "dir", data |-> "", size |-> 4096]

Symlink(target, size) ==
    [kind |-> "symlink", data |-> target, size |-> size]

NoTree ==
    [p \in {} |-> Dir]

Under(prefix, rel) ==
    IF rel = "" THEN prefix
    ELSE IF prefix = "" THEN rel
    ELSE Join(prefix, rel)

\* The directories on the way to path p, the root included, p excluded.
ProperPrefixes(p) ==
    IF p = "" THEN {}
    ELSE {""} \cup {SubSeq(p, 1, i - 1) : i \in {j \in 1..Len(p) : CharAt(p, j) = "/"}}

\* fs ensureDirSync: mkdir -p; an existing non-directory on the way is an error.
EnsureDirFails(tree, p) ==
    \E q \in (ProperPrefixes(p) \cup {p}) \cap DOMAIN tree : tree[q].kind # "dir"

EnsureDirSync(tree, p) ==
    tree @@ [q \in ProperPrefixes(p) \cup {p} |-> Dir]

\* An emptyDirSync that leaves what the directory holds.
EmptyDirSyncKeeping(tree) ==
    tree

\* fs emptyDirSync on the root of the tree: every item inside is removed.
EmptyDirSync(tree) ==
    [p \in {""} |-> tree[""]]

\* A copy that leaves the files dest already holds as they are.
CopySyncKeepingExisting(src, into, dest) ==
    LET target == {Under(dest, p) : p \in DOMAIN src}
        copied == [q \in target |-> src[CHOOSE p \in DOMAIN src : Under(dest, p) = q]]
    IN  EnsureDirSync(into, dest) @@ copied

\* copySync(src, dest, {overwrite: true}) of the directory src to path dest of
\* the tree into: the directory is created and every entry of src replaces
\* what dest holds under the same name.
CopySync(src, into, dest) ==
    LET target == {Under(dest, p) : p \in DOMAIN src}
        copied == [q \in target |-> src[CHOOSE p \in DOMAIN src : Under(dest, p) = q]]
    IN  copied @@ EnsureDirSync(into, dest)

\* Deno.writeTextFileSync(path, text)
WriteTextFileSync(tree, p, text) ==
    [q \in {p} |-> File(text, Len(text))] @@ tree

\* The directory trees that hold at most n entries of pool, each with the
\* directories on the way to it.
TreesOf(pool, n) ==
    {[p \in S \cup UNION {ProperPrefixes(q) : q \in S} \cup {""} |->
         IF p \in S THEN pool[p] ELSE Dir] :
       S \in {T \in SUBSET DOMAIN pool : Cardinality(T) <= n}}

\* ----------------------------------------------------------------- inputs
OutDirectory ==
    "/tmp/out"

Configurations ==
    {[productName |-> "Quarto", version |-> "1.2.0", out |-> OutDirectory],
     [productName |-> "Sample", version |-> "99.9.9", out |-> OutDirectory]}

\* What dpkg-architecture may print, and how a command may exit.
ArchOutputs ==
    {"amd64\n", "arm64", "", " \n"}

ExitCodes ==
    {0, 1}

BinTrees ==
    TreesOf([p \in {"quarto", "tools/deno"} |-> File("exe " \o p, 300)], MaxSourceEntries)

ShareTrees ==
    TreesOf([p \in {"version", "formats/a.lua"} |-> File("res " \o p, 5)], MaxSourceEntries)

DistPool ==
    [p \in {"bin/quarto", "LICENSE", "share", "share/version", "quarto"} |->
        CASE p = "bin/quarto" -> File("exe", 204800)
          [] p = "LICENSE" -> File("gpl", 512)
          [] p = "share" -> Dir
          [] p = "share/version" -> File("1.2.0", 1000)
          [] p = "quarto" -> Symlink("bin/quarto", 1024)]

DistTrees ==
    TreesOf(DistPool, MaxDistEntries)

ScriptsPool ==
    [p \in {"postinst", "prerm", "control", "copyright"} |->
        CASE p = "postinst" -> File("#!/bin/sh\nln -s\n", 17)
          [] p = "prerm" -> File("#!/bin/sh\nrm\n", 13)
          [] p = "control" -> File("Package: other\n", 15)
          [] p = "copyright" -> File("License: other\n", 15)]

ScriptsTrees ==
    TreesOf(ScriptsPool, MaxScripts)

StalePool ==
    [p \in {"stale.txt", "DEBIAN/preinst", "DEBIAN/control"} |->
        CASE p = "stale.txt" -> File("old", 3)
          [] p = "DEBIAN/preinst" -> File("#!/bin/sh\nold\n", 14)
          [] p = "DEBIAN/control" -> File("Package: old\n", 13)]

\* <out>/working before the run: missing, a regular file, or a directory
\* left by an earlier build.
PriorWorkingTrees ==
    {NoTree, [p \in {""} |-> File("junk", 4)]} \cup TreesOf(StalePool, MaxStale)

\* ------------------------------------------------------------------ state
VARIABLES
    configuration,   \* productName, version, directoryInfo.out
    priorWorking,    \* the tree at <out>/working when the run began
    disk,            \* the source directories as the run read them
    working,         \* the tree at <out>/working
    debs,            \* the archive files in <out>
    pc,              \* the position in makeInstallerDeb
    result,          \* what runCmd("dpkg-architecture") returned
    architecture,
    packageName,
    pending,         \* the entries walk() has not yielded yet
    fileSizes,
    size,
    control,
    copyrightText,
    dpkgDebCalls,    \* the invocations of dpkg-deb: arguments and staged tree
    trace,           \* the steps begun, in order
    failedAt         \* the step whose error reached the caller

vars ==
    <<configuration, priorWorking, disk, working, debs, pc, result, architecture, packageName,
      pending, fileSizes, size, control, copyrightText, dpkgDebCalls, trace, failedAt>>

inputs ==
    <<configuration, priorWorking>>

locals ==
    <<result, architecture, packageName, pending, fileSizes, size, control, copyrightText>>

Undefined ==
    <<>>

Defined(s) ==
    <<s>>

NoResult ==
    [threw |-> FALSE, code |-> 0, stdout |-> ""]

Init ==
    /\ configuration \in Configurations
    /\ disk = [bin |-> NoTree, share |-> NoTree, dist |-> NoTree, scripts |-> NoTree]
    /\ priorWorking \in PriorWorkingTrees
    /\ working = priorWorking
    /\ debs = {}
    /\ pc = "detect"
    /\ result = NoResult
    /\ architecture = Undefined
    /\ packageName = ""
    /\ pending = {}
    /\ fileSizes = <<>>
    /\ size = 0
    /\ control = ""
    /\ copyrightText = ""
    /\ dpkgDebCalls = <<>>
    /\ trace = <<>>
    /\ failedAt = ""

\* ------------------------------------------------------------ control flow
\* The statement that follows each step of makeInstallerDeb, with the archive
\* built before the maintainer scripts are copied.
AfterStepArchiveEarly(step) ==
    CASE step = "detect" -> "prepare"
      [] step = "prepare" -> "copyBin"
      [] step = "copyBin" -> "copyShare"
      [] step = "copyShare" -> "walk"
      [] step = "walk" -> "walking"
      [] step = "sumSizes" -> "makeControl"
      [] step = "makeControl" -> "ensureDebian"
      [] step = "ensureDebian" -> "writeControl"
      [] step = "writeControl" -> "writeCopyright"
      [] step = "writeCopyright" -> "archive"
      [] step = "archive" -> "copyScripts"
      [] step = "copyScripts" -> "done"

\* The statement that follows each step of makeInstallerDeb.
AfterStep(step) ==
    CASE step = "detect" -> "prepare"
      [] step = "prepare" -> "copyBin"
      [] step = "copyBin" -> "copyShare"
      [] step = "copyShare" -> "walk"
      [] step = "walk" -> "walking"
      [] step = "sumSizes" -> "makeControl"
      [] step = "makeControl" -> "ensureDebian"
      [] step = "ensureDebian" -> "writeControl"
      [] step = "writeControl" -> "writeCopyright"
      [] step = "writeCopyright" -> "copyScripts"
      [] step = "copyScripts" -> "archive"
      [] step = "archive" -> "done"

Continue(step) ==
    /\ pc' = AfterStep(step)
    /\ failedAt' = failedAt

\* An error that is caught and logged where it is raised: the run goes on.
ThrowCaught(step) ==
    /\ pc' = AfterStep(step)
    /\ failedAt' = step

\* An error raised in a step: nothing in makeInstallerDeb catches it, so it
\* reaches the caller and no later statement runs.
Throw(step) ==
    /\ pc' = "failed"
    /\ failedAt' = step

\* runCmd of util/cmd.ts: runs the command and returns its status and output;
\* a non-zero exit status is raised as an error.
RunCmd(code, stdout) ==
    [threw |-> code # 0, code |-> code, stdout |-> stdout]

\* A test against undefined alone.
IsUndefined(a) ==
    a = Undefined

\* !architecture: undefined and the empty string are falsy.
IsFalsy(a) ==
    a = Undefined \/ a[1] = ""

\* The package name with the configured product name in front.
PackageNameOfProduct(config, arch) ==
    config.productName \o "-" \o config.version \o "-linux-" \o arch \o ".deb"

PackageName(config, arch) ==
    "quarto-" \o config.version \o "-linux-" \o arch \o ".deb"

WorkingDir(config) ==
    Join(config.out, "working")

\* The staged paths, relative to the working directory.
WorkingBinPath(config) ==
    Join(Join("opt", ToLowerCase(config.productName)), "bin")

WorkingSharePath(config) ==
    Join(Join("opt", ToLowerCase(config.productName)), "share")

DebianDir ==
    "DEBIAN"

\* ------------------------------------------------------------------ steps
DetectArchitecture ==
    /\ pc = "detect"
    /\ \E code \in ExitCodes, out \in ArchOutputs :
          LET r == RunCmd(code, out)
              arch == IF r.threw THEN Undefined
                      ELSE IF r.code = 0 THEN Defined(Trim(r.stdout)) ELSE Undefined
          IN  /\ result' = r
              /\ architecture' = arch
              /\ IF r.threw \/ IsFalsy(arch)
                 THEN Throw("detect") /\ packageName' = packageName
                 ELSE Continue("detect") /\ packageName' = PackageName(configuration, arch[1])
    /\ trace' = Append(trace, "detect")
    /\ UNCHANGED <<inputs, disk, working, debs, pending, fileSizes, size,
                   control, copyrightText, dpkgDebCalls>>

PrepareWorkingDir ==
    /\ pc = "prepare"
    /\ trace' = Append(trace, "prepare")
    /\ \/ /\ ~EnsureDirFails(working, "")
          /\ working' = EmptyDirSync(EnsureDirSync(working, ""))
          /\ Continue("prepare")
       \/ /\ working' = working
          /\ Throw("prepare")
    /\ UNCHANGED <<inputs, disk, debs, locals, dpkgDebCalls>>

CopyBin ==
    /\ pc = "copyBin"
    /\ trace' = Append(trace, "copyBin")
    /\ \/ \E src \in BinTrees :
             /\ disk' = [disk EXCEPT !.bin = src]
             /\ working' = CopySync(src, working, WorkingBinPath(configuration))
             /\ Continue("copyBin")
       \/ /\ UNCHANGED <<disk, working>>
          /\ Throw("copyBin")
    /\ UNCHANGED <<inputs, debs, locals, dpkgDebCalls>>

CopyShare ==
    /\ pc = "copyShare"
    /\ trace' = Append(trace, "copyShare")
    /\ \/ \E src \in ShareTrees :
             /\ disk' = [disk EXCEPT !.share = src]
             /\ working' = CopySync(src, working, WorkingSharePath(configuration))
             /\ Continue("copyShare")
       \/ /\ UNCHANGED <<disk, working>>
          /\ Throw("copyShare")
    /\ UNCHANGED <<inputs, debs, locals, dpkgDebCalls>>

\* An entry test that takes everything but a directory for a file.
EntryIsNotDirectory(entry) ==
    entry.kind # "dir"

\* WalkEntry.isFile: a regular file; walk() does not follow symbolic links.
EntryIsFile(entry) ==
    entry.kind = "file"

\* (await Deno.stat(entry.path)).size
StatSize(entry) ==
    entry.size

RECURSIVE ReduceFrom(_, _, _)
ReduceFrom(arr, i, accum) ==
    IF i > Len(arr) THEN accum
    ELSE ReduceFrom(arr, i + 1, accum + arr[i])

\* fileSizes.reduce((accum, target) => accum + target), with no initial value:
\* the first element starts the sum; an empty array is a TypeError.
ReduceThrows(arr) ==
    Len(arr) = 0

Reduce(arr) ==
    ReduceFrom(arr, 2, arr[1])

Url ==
    "https://github.com/quarto-dev/quarto-cli"

Val(name, value) ==
    name \o ": " \o value \o "\n"

ControlText(config, arch, bytes) ==
    Val("Package", config.productName)
    \o Val("Version", config.version)
    \o Val("Architecture", arch)
    \o Val("Installed-Size", NumberToString(MathRoundKiB(bytes)))
    \o Val("Section", "user/text")
    \o Val("Priority", "optional")
    \o Val("Maintainer", "RStudio, PBC <quarto@rstudio.org>")
    \o Val("Homepage", Url)
    \o Val("Description",
           "Quarto is an academic, scientific, and technical publishing system built on Pandoc.")

CopyrightText ==
    JoinLines(<<"Format: https://www.debian.org/doc/packaging-manuals/copyright-format/1.0/",
                "Upstream-Name: Quarto",
                "Source: " \o Url,
                "",
                "Files: *",
                "Copyright: RStudio, PBC.",
                "License: GPL-2+">>)

WalkStart ==
    /\ pc = "walk"
    /\ trace' = Append(trace, "walk")
    /\ \/ \E tree \in DistTrees :
             /\ disk' = [disk EXCEPT !.dist = tree]
             /\ pending' = DOMAIN tree
             /\ fileSizes' = <<>>
             /\ Continue("walk")
       \/ /\ UNCHANGED <<disk, pending, fileSizes>>
          /\ Throw("walk")
    /\ UNCHANGED <<inputs, working, debs, result, architecture, packageName,
                   size, control, copyrightText, dpkgDebCalls>>

\* One turn of the for-await loop: walk() yields a directory before what it
\* holds, in no other fixed order.
WalkNext ==
    /\ pc = "walking"
    /\ pending # {}
    /\ \/ \E p \in pending :
             /\ ProperPrefixes(p) \cap pending = {}
             /\ pending' = pending \ {p}
             /\ fileSizes' = IF EntryIsFile(disk.dist[p])
                             THEN Append(fileSizes, StatSize(disk.dist[p]))
                             ELSE fileSizes
             /\ UNCHANGED <<pc, failedAt>>
       \/ /\ UNCHANGED <<pending, fileSizes>>
          /\ Throw("walk")
    /\ UNCHANGED <<inputs, disk, working, debs, result, architecture, packageName,
                   size, control, copyrightText, dpkgDebCalls, trace>>

SumSizes ==
    /\ pc = "walking"
    /\ pending = {}
    /\ trace' = Append(trace, "sumSizes")
    /\ IF ReduceThrows(fileSizes)
       THEN Throw("sumSizes") /\ size' = size
       ELSE Continue("sumSizes") /\ size' = Reduce(fileSizes)
    /\ UNCHANGED <<inputs, disk, working, debs, result, architecture, packageName,
                   pending, fileSizes, control, copyrightText, dpkgDebCalls>>

MakeControl ==
    /\ pc = "makeControl"
    /\ trace' = Append(trace, "makeControl")
    /\ control' = ControlText(configuration, architecture[1], size)
    /\ Continue("makeControl")
    /\ UNCHANGED <<inputs, disk, working, debs, result, architecture, packageName,
                   pending, fileSizes, size, copyrightText, dpkgDebCalls>>

EnsureDebianDir ==
    /\ pc = "ensureDebian"
    /\ trace' = Append(trace, "ensureDebian")
    /\ \/ /\ ~EnsureDirFails(working, DebianDir)
          /\ working' = EnsureDirSync(working, DebianDir)
          /\ Continue("ensureDebian")
       \/ /\ working' = working
          /\ Throw("ensureDebian")
    /\ UNCHANGED <<inputs, disk, debs, locals, dpkgDebCalls>>

WriteControl ==
    /\ pc = "writeControl"
    /\ trace' = Append(trace, "writeControl")
    /\ \/ /\ working' = WriteTextFileSync(working, Join(DebianDir, "control"), control)
          /\ Continue("writeControl")
       \/ /\ working' = working
          /\ Throw("writeControl")
    /\ UNCHANGED <<inputs, disk, debs, locals, dpkgDebCalls>>

WriteCopyright ==
    /\ pc = "writeCopyright"
    /\ trace' = Append(trace, "writeCopyright")
    /\ copyrightText' = CopyrightText
    /\ \/ /\ working' = WriteTextFileSync(working, Join(DebianDir, "copyright"), CopyrightText)
          /\ Continue("writeCopyright")
       \/ /\ working' = working
          /\ Throw("writeCopyright")
    /\ UNCHANGED <<inputs, disk, debs, result, architecture, packageName,
                   pending, fileSizes, size, control, dpkgDebCalls>>

CopyScripts ==
    /\ pc = "copyScripts"
    /\ trace' = Append(trace, "copyScripts")
    /\ \/ \E src \in ScriptsTrees :
             /\ disk' = [disk EXCEPT !.scripts = src]
             /\ working' = CopySync(src, working, DebianDir)
             /\ Continue("copyScripts")
       \/ /\ UNCHANGED <<disk, working>>
          /\ Throw("copyScripts")
    /\ UNCHANGED <<inputs, debs, locals, dpkgDebCalls>>

\* An await whose rejection is caught and dropped.
AwaitIgnoringFailure(r, step) ==
    Continue(step)

\* await runCmd(...): a rejected promise is thrown at the await.
Await(r, step) ==
    IF r.threw THEN Throw(step) ELSE Continue(step)

BuildArchive ==
    /\ pc = "archive"
    /\ trace' = Append(trace, "archive")
    /\ \E code \in ExitCodes :
          LET dest == Join(configuration.out, packageName)
          IN  /\ dpkgDebCalls' = Append(dpkgDebCalls,
                    [args |-> <<"-Z", "gzip", "-z", "9", "--build",
                                WorkingDir(configuration), dest>>,
                     staged |-> working,
                     code |-> code])
              /\ debs' = IF code = 0 THEN debs \cup {dest} ELSE debs
              /\ Await(RunCmd(code, ""), "archive")
    /\ UNCHANGED <<inputs, disk, working, locals>>

Next ==
    \/ DetectArchitecture
    \/ PrepareWorkingDir
    \/ CopyBin
    \/ CopyShare
    \/ WalkStart
    \/ WalkNext
    \/ SumSizes
    \/ MakeControl
    \/ EnsureDebianDir
    \/ WriteControl
    \/ WriteCopyright
    \/ CopyScripts
    \/ BuildArchive

Spec ==
    Init /\ [][Next]_vars

\* --------------------------------------------------- reading the results
InTrace(step) ==
    \E i \in 1..Len(trace) : trace[i] = step

IsPrefix(a, b) ==
    Len(a) <= Len(b) /\ \A i \in 1..Len(a) : a[i] = b[i]

StartsWith(s, prefix) ==
    Len(prefix) <= Len(s) /\ SubSeq(s, 1, Len(prefix)) = prefix

RECURSIVE NewlineFrom(_, _)
\* The position of the first newline of text at or after i, 0 when none.
NewlineFrom(text, i) ==
    IF i > Len(text) THEN 0
    ELSE IF CharAt(text, i) = "\n" THEN i
    ELSE NewlineFrom(text, i + 1)

RECURSIVE TerminatedLinesFrom(_, _)
TerminatedLinesFrom(text, i) ==
    LET n == NewlineFrom(text, i)
    IN  IF n = 0 THEN <<>>
        ELSE <<SubSeq(text, i, n - 1)>> \o TerminatedLinesFrom(text, n + 1)

\* The newline-terminated lines of a text, without their newlines.
TerminatedLines(text) ==
    TerminatedLinesFrom(text, 1)

RECURSIVE UnterminatedFrom(_, _)
UnterminatedFrom(text, i) ==
    LET n == NewlineFrom(text, i)
    IN  IF n = 0 THEN SubSeq(text, i, Len(text))
        ELSE UnterminatedFrom(text, n + 1)

\* What follows the last newline of a text.
Unterminated(text) ==
    UnterminatedFrom(text, 1)

FieldNames ==
    <<"Package", "Version", "Architecture", "Installed-Size", "Section",
      "Priority", "Maintainer", "Homepage", "Description">>

\* The value of the i-th line of a control text: what follows "<name>: ".
FieldValue(text, i) ==
    LET line == TerminatedLinesFrom(text, 1)[i]
    IN  SubSeq(line, Len(FieldNames[i]) + 3, Len(line))

\* The same, of the lines of the text.
ValueOf(lines, i) ==
    SubSeq(lines[i], Len(FieldNames[i]) + 3, Len(lines[i]))

\* The number a string of decimal digits with no leading zero denotes, -1 for
\* any other string.
DigitValue(c) ==
    (CHOOSE i \in 1..10 : CharAt(Digits, i) = c) - 1

RECURSIVE DigitsValue(_)
DigitsValue(s) ==
    IF Len(s) = 0 THEN 0
    ELSE 10 * DigitsValue(SubSeq(s, 1, Len(s) - 1)) + DigitValue(CharAt(s, Len(s)))

ParseDecimal(s) ==
    IF /\ Len(s) > 0
       /\ \A i \in 1..Len(s) : \E d \in 1..10 : CharAt(Digits, d) = CharAt(s, i)
       /\ (Len(s) > 1 => CharAt(s, 1) # "0")
    THEN DigitsValue(s)
    ELSE -1

RegularFiles(tree) ==
    {p \in DOMAIN tree : tree[p].kind = "file"}

RECURSIVE TotalBytes(_, _)
\* The sum of the sizes of the regular files among paths, in no order.
TotalBytes(tree, paths) ==
    IF paths = {} THEN 0
    ELSE LET p == CHOOSE q \in paths : TRUE
         IN  tree[p].size + TotalBytes(tree, paths \ {p})

\* k is bytes / 1024 rounded to the nearest integer, a tie going up.
IsNearestKiB(k, bytes) ==
    2048 * k - 1024 <= 2 * bytes /\ 2 * bytes < 2048 * k + 1024

\* The control file is on disk as generated: from its write to the script copy.
ControlWritten ==
    pc \in {"writeCopyright", "copyScripts"}

ControlFile ==
    working[Join(DebianDir, "control")].data

Blank(s) ==
    \A i \in 1..Len(s) : CharAt(s, i) \in Whitespace

\* ------------------------------------------------------------------ claims
Calls ==
    {dpkgDebCalls[i] : i \in 1..Len(dpkgDebCalls)}

C2_DetectionFailureStagesNothing ==
    (pc # "detect" /\ (result.code # 0 \/ Blank(result.stdout))) =>
        /\ pc = "failed"
        /\ failedAt = "detect"
        /\ trace = <<"detect">>
        /\ working = priorWorking
        /\ dpkgDebCalls = <<>>
        /\ debs = {}

C2_Witness ==
    /\ pc = "failed"
    /\ failedAt = "detect"
    /\ result.code = 0
    /\ result.stdout = " \n"
    /\ "stale.txt" \in DOMAIN priorWorking

\* C3: with no regular file in the distribution tree the size computation
\* does not fail: the sum is 0 and the control file says Installed-Size: 0.
C3_EmptyDistributionTolerated ==
    (disk.dist # NoTree /\ RegularFiles(disk.dist) = {} /\ InTrace("sumSizes")) =>
        /\ failedAt # "sumSizes"
        /\ size = 0
        /\ ControlWritten => FieldValue(ControlFile, 4) = "0"

\* C4: with at least one regular file in the distribution tree, the
\* Installed-Size written is the sum of the sizes of its regular files,
\* directories and symbolic links left out, divided by 1024 and rounded, in
\* whatever order the tree is walked.
C4_InstalledSizeIsRoundedKiB ==
    (ControlWritten /\ RegularFiles(disk.dist) # {}) =>
        IsNearestKiB(ParseDecimal(FieldValue(ControlFile, 4)),
                     TotalBytes(disk.dist, RegularFiles(disk.dist)))

C4_Witness ==
    /\ ControlWritten
    /\ {"LICENSE", "quarto"} \subseteq DOMAIN disk.dist
    /\ RegularFiles(disk.dist) = {"LICENSE"}
    /\ FieldValue(ControlFile, 4) = "1"

\* C5: the control text written is nine newline-terminated lines
\* "<FieldName>: <value>" in the fixed order, the first three carrying the
\* product name, the version and the detected architecture.
C5_ControlHasNineFields ==
    ControlWritten =>
        LET lines == TerminatedLines(ControlFile)
        IN  /\ Unterminated(ControlFile) = ""
            /\ Len(lines) = 9
            /\ \A i \in 1..9 : StartsWith(lines[i], FieldNames[i] \o ": ")
            /\ ValueOf(lines, 1) = configuration.productName
            /\ ValueOf(lines, 2) = configuration.version
            /\ ValueOf(lines, 3) = architecture[1]
            /\ ~Blank(ValueOf(lines, 3))

C5_Witness ==
    /\ ControlWritten
    /\ result.stdout = "amd64\n"
    /\ configuration.productName = "Sample"
    /\ FieldValue(ControlFile, 3) = "amd64"

\* The entries of tree, placed under the path at.
Placed(tree, at) ==
    {<<Under(at, p), tree[p]>> : p \in DOMAIN tree}

\* What a run stages, from its configuration, its sources and the texts it
\* generated alone.
StagedEntries ==
    LET product == Join("opt", ToLowerCase(configuration.productName))
        generated == {<<"DEBIAN/control", File(control, Len(control))>>,
                      <<"DEBIAN/copyright", File(copyrightText, Len(copyrightText))>>}
        scripts == Placed(disk.scripts, "DEBIAN")
    IN  {<<"", Dir>>, <<"opt", Dir>>, <<product, Dir>>}
        \cup Placed(disk.bin, Join(product, "bin"))
        \cup Placed(disk.share, Join(product, "share"))
        \cup scripts
        \cup {e \in generated : \A f \in scripts : f[1] # e[1]}

\* C6: the tree handed to dpkg-deb is decided by the configuration, the
\* sources and the architecture; nothing the working directory held before
\* the run is left in it.
C6_StagingForgetsPriorContents ==
    \A call \in Calls :
        Placed(call.staged, "") = StagedEntries

C6_Witness ==
    /\ Calls # {}
    /\ "DEBIAN/preinst" \in DOMAIN priorWorking
    /\ "postinst" \in DOMAIN disk.scripts

ExpectedOrder ==
    <<"detect", "prepare", "copyBin", "copyShare", "walk", "sumSizes", "makeControl",
      "ensureDebian", "writeControl", "writeCopyright", "copyScripts", "archive">>

\* C8: a step before the archive build that fails is the last step of the
\* run: it is begun once, nothing is begun after it, dpkg-deb is not invoked
\* and no archive is produced.
C8_FailureEndsTheRun ==
    (failedAt # "" /\ failedAt # "archive") =>
        /\ pc = "failed"
        /\ IsPrefix(trace, ExpectedOrder)
        /\ trace[Len(trace)] = failedAt
        /\ dpkgDebCalls = <<>>
        /\ debs = {}

C8_Witness ==
    /\ pc = "failed"
    /\ failedAt = "copyScripts"
    /\ Len(trace) = 11

\* C9: the steps are begun in the fixed order, each at most once; dpkg-deb is
\* invoked once at most, on a tree that holds the staged bin and share, the
\* control and copyright files and the copied scripts, and it is the last
\* step of a finished run, which leaves the working directory in place.
C9_StepsInFixedOrder ==
    /\ IsPrefix(trace, ExpectedOrder)
    /\ Len(dpkgDebCalls) <= 1
    /\ \A call \in Calls :
          LET staged == Placed(call.staged, "")
          IN  /\ trace = ExpectedOrder
              /\ Placed(disk.bin, WorkingBinPath(configuration)) \subseteq staged
              /\ Placed(disk.share, WorkingSharePath(configuration)) \subseteq staged
              /\ {"DEBIAN/control", "DEBIAN/copyright"} \subseteq DOMAIN call.staged
              /\ disk.scripts # NoTree
              /\ Placed(disk.scripts, "DEBIAN") \subseteq staged
    /\ pc = "done" =>
          /\ trace = ExpectedOrder
          /\ Len(dpkgDebCalls) = 1
          /\ working = dpkgDebCalls[1].staged

C9_Witness ==
    /\ pc = "done"
    /\ "prerm" \in DOMAIN disk.scripts
    /\ "quarto" \in DOMAIN disk.bin

StagedText(call, name) ==
    IF Join(DebianDir, name) \in DOMAIN call.staged
    THEN call.staged[Join(DebianDir, name)].data
    ELSE "(no such file)"

\* C10, as claimed: whatever the scripts directory holds, dpkg-deb is given
\* DEBIAN/control and DEBIAN/copyright with the text generated in the run.
C10_GeneratedMetadataArchived ==
    \A call \in Calls :
        /\ StagedText(call, "control") = control
        /\ StagedText(call, "copyright") = copyrightText

\* C10, amended: dpkg-deb is given the generated control (copyright) text
\* when the scripts directory holds no entry named control (copyright); an
\* entry of that name replaces the generated file.
C10_ScriptsReplaceGeneratedMetadata ==
    \A call \in Calls :
        /\ StagedText(call, "control") =
              IF "control" \in DOMAIN disk.scripts THEN disk.scripts["control"].data
              ELSE control
        /\ StagedText(call, "copyright") =
              IF "copyright" \in DOMAIN disk.scripts THEN disk.scripts["copyright"].data
              ELSE copyrightText

C10_Witness ==
    /\ Calls # {}
    /\ DOMAIN disk.scripts = {"", "postinst"}
    /\ \A call \in Calls : StagedText(call, "copyright") = copyrightText
    /\ \A call \in Calls : StagedText(call, "control") = control

====
